---- MODULE Spec2Model ----
(***************************************************************************)
(* Model of cinder/volume/drivers/smbfs.py (SmbfsDriver): share placement  *)
(* (_find_share / _is_share_eligible / _get_capacity_info), setup          *)
(* validation (do_setup), volume file creation and deletion.               *)
(*                                                                         *)
(* Capacities are byte counts.  They are kept in units of 2^29 bytes so    *)
(* that the values fit TLC's integers; one GiB is GiB units.  The          *)
(* two policy ratios are rationals [num, den] with den > 0, and every      *)
(* comparison of the source that involves a ratio or a division by         *)
(* total_size is evaluated exactly, after multiplying both sides by the    *)
(* (positive) denominators.  IEEE rounding of the doubles is not modelled. *)
(*                                                                         *)
(* Every external command (_execute, mount) is a point where the           *)
(* green-threaded service may switch to another request, so _find_share    *)
(* is a sequence of steps, one per _get_capacity_info call.                *)
(***************************************************************************)
EXTENDS Integers, Sequences, FiniteSets, TLC

\* ---------------------------------------------------------------- bounds

\* largest volume size (in GiB) a request asks for
MaxVolumeSize == 2

\* units.GiB, counted in units of 2^29 bytes
GiB == 2

Procs == {1, 2}
Shares == {"A", "B", "C"}
None == "None"
\* a volume file is <<size in GiB>>; NoFile: nothing at that path
NoFile == <<>>

\* sizes handed to _find_share, one of them negative
VolumeSizes == -1..MaxVolumeSize

\* ratios offered by the configuration file
UsedRatios == {[num |-> 0, den |-> 1], [num |-> 1, den |-> 2],
               [num |-> 3, den |-> 2]}
OversubRatios == {[num |-> 0, den |-> 1], [num |-> 1, den |-> 1],
                  [num |-> 3, den |-> 2]}
ConfigPaths == {"", "/etc/cinder/smbfs_shares"}

\* what stat -f / du report for a share before any volume is placed on it
TotalSizes == {0, 2 * GiB}
Availables == {0, GiB}
Others == {0, GiB, 2 * GiB}
FsStates == {c \in [total_size : TotalSizes, total_available : Availables,
                    other : Others] : c.total_available <= c.total_size}

\* ---------------------------------------------------------------- state

VARIABLES
    configuration,     \* smbfs_shares_config, smbfs_used_ratio, smbfs_oversub_ratio
    shares,            \* self.shares: address -> mount options
    mounted_shares,    \* self._mounted_shares, an ordered list
    fs,                \* per share: what the filesystem holds besides volumes
    files,             \* volume files: <<share, name>> -> <<size in GiB>> or NoFile
    pc,                \* position of each create request
    call,              \* locals of each request's _find_share call
    dlog,              \* what the latest delete_volume of each volume did
    lastOp             \* the latest do_setup and what it did

vars == <<configuration, shares, mounted_shares, fs, files, pc, call, dlog,
          lastOp>>

\* ---------------------------------------------------------------- helpers

Max(a, b) == IF a >= b THEN a ELSE b

RECURSIVE SumSizes(_, _)
SumSizes(f, S) ==
    IF S = {} THEN 0
    ELSE LET n == CHOOSE x \in S : TRUE
         IN (IF f[n] = NoFile THEN 0 ELSE f[n][1] * GiB) + SumSizes(f, S \ {n})

\* _get_capacity_info: stat -f gives size and available, du --apparent-size
\* gives the bytes of everything below the mount point
GetCapacityInfo(s) ==
    [total_size |-> fs[s].total_size,
     total_available |-> fs[s].total_available,
     total_allocated |-> fs[s].other
                         + SumSizes([n \in Procs |-> files[<<s, n>>]], Procs)]

\* used = (total_size - total_available) / total_size;  used > used_ratio
AboveUsedRatio(used_ratio, cap) ==
    (cap.total_size - cap.total_available) * used_ratio.den
        > used_ratio.num * cap.total_size

\* apparent_size and apparent_available, both times oversub_ratio.den
ApparentSize(oversub_ratio, cap) ==
    Max(0, cap.total_size * oversub_ratio.num)

\* apparent_available with the allocated bytes left out
ApparentAvailableOfEmptyShare(oversub_ratio, cap) ==
    Max(0, ApparentSize(oversub_ratio, cap))

ApparentAvailable(oversub_ratio, cap) ==
    Max(0, ApparentSize(oversub_ratio, cap)
           - cap.total_allocated * oversub_ratio.den)

\* the same check letting a request that takes all the headroom through
AboveOversubRatioAllowsEqual(oversub_ratio, cap, requested_volume_size) ==
    ApparentAvailable(oversub_ratio, cap)
        < requested_volume_size * oversub_ratio.den

\* apparent_available <= requested_volume_size
AboveOversubRatio(oversub_ratio, cap, requested_volume_size) ==
    ApparentAvailable(oversub_ratio, cap)
        <= requested_volume_size * oversub_ratio.den

\* the same check against total_size alone, the ratio left out
ReservedAboveTotalSize(oversub_ratio, cap) ==
    cap.total_allocated >= cap.total_size

\* total_allocated / total_size >= oversub_ratio
ReservedAboveOversubRatio(oversub_ratio, cap) ==
    cap.total_allocated * oversub_ratio.den
        >= oversub_ratio.num * cap.total_size

\* a guarded division: a share without size counts as not eligible
DivisionGuarded(cap) == "False"

\* the division by total_size of line 257
Division(cap) ==
    IF cap.total_size = 0 THEN "ZeroDivisionError" ELSE "ok"

\* _is_share_eligible on one capacity reading
IsShareEligible(cap, volume_size_in_gib) ==
    LET used_ratio == configuration.smbfs_used_ratio
        oversub_ratio == configuration.smbfs_oversub_ratio
        requested_volume_size == volume_size_in_gib * GiB
    IN  IF Division(cap) # "ok" THEN Division(cap)
        ELSE IF AboveUsedRatio(used_ratio, cap) THEN "False"
        ELSE IF AboveOversubRatio(oversub_ratio, cap, requested_volume_size)
             THEN "False"
        ELSE IF ReservedAboveOversubRatio(oversub_ratio, cap) THEN "False"
        ELSE "True"

SmbfsNoSharesMounted == [kind |-> "SmbfsNoSharesMounted"]

\* the same error carrying the size converted to bytes
SmbfsNoSuitableShareFoundInBytes(volume_size_in_gib) ==
    [kind |-> "SmbfsNoSuitableShareFound",
     volume_size |-> volume_size_in_gib * GiB]

SmbfsNoSuitableShareFound(volume_size_in_gib) ==
    [kind |-> "SmbfsNoSuitableShareFound", volume_size |-> volume_size_in_gib]

ZeroDivisionError == [kind |-> "ZeroDivisionError"]

Selected(share) == [kind |-> "share", share |-> share]

\* no test of the mounted list at all
NoMountedSharesUnchecked(list) == FALSE

\* "if not self._mounted_shares"
NoMountedShares(list) == list = <<>>

\* the locals of a _find_share call that has not read anything yet
NewCall(size, list) ==
    [size |-> size, list |-> list, idx |-> 1,
     target_share |-> None, target_share_reserved |-> 0,
     inspections |-> 0,
     eligible |-> [i \in 1..Len(list) |-> "?"],
     eligRead |-> [i \in 1..Len(list) |-> 0],
     ranked |-> [i \in 1..Len(list) |-> FALSE],
     rankRead |-> [i \in 1..Len(list) |-> 0],
     result |-> [kind |-> "running"]]

IdleCall == [NewCall(0, <<>>) EXCEPT !.result = [kind |-> "none"]]

\* end of the for loop: lines 227-233
LoopExit(c) ==
    IF c.target_share = None
    THEN [c EXCEPT !.result = SmbfsNoSuitableShareFound(c.size)]
    ELSE [c EXCEPT !.result = Selected(c.target_share)]

\* move to the next share of the list, or leave the loop after the last one
NextShare(c) ==
    LET d == [c EXCEPT !.idx = c.idx + 1]
    IN IF d.idx > Len(d.list) THEN LoopExit(d) ELSE d

PcAfter(c, inLoop) ==
    IF c.result.kind = "running" THEN inLoop
    ELSE IF c.result.kind = "share" THEN "found" ELSE "failed"

\* the strict comparison of line 220
Lower(total_allocated, target_share_reserved) ==
    target_share_reserved > total_allocated

\* lines 219-225 on the second capacity reading of the share
Rank(c, share, total_allocated) ==
    IF c.target_share # None
    THEN IF Lower(total_allocated, c.target_share_reserved)
         THEN [c EXCEPT !.target_share = share,
                        !.target_share_reserved = total_allocated]
         ELSE c
    ELSE [c EXCEPT !.target_share = share,
                   !.target_share_reserved = total_allocated]

\* the shares file, in the order its addresses are iterated
SharesFile == <<"A", "B", "C">>
SharesOptions == [s \in Shares |-> IF s = "B" THEN "-o username=x" ELSE None]

RECURSIVE Filter(_, _)
Filter(list, keep) ==
    IF list = <<>> THEN <<>>
    ELSE (IF Head(list) \in keep THEN <<Head(list)>> ELSE <<>>)
         \o Filter(Tail(list), keep)

NoOp == [op |-> "none", commands |-> <<>>, error |-> None]
NoLog == [commands |-> <<>>, error |-> None]

Mount(share) ==
    [cmd |-> "mount", share |-> share, name |-> 0,
     flags |-> IF share \in DOMAIN shares THEN shares[share] ELSE None]

Rm(share, name) == [cmd |-> "rm", share |-> share, name |-> name, flags |-> None]

\* "not self.configuration.smbfs_oversub_ratio > 0"
OversubRatioInvalid(r) == ~(r.num > 0)

\* "(not smbfs_used_ratio > 0) and (smbfs_used_ratio <= 1)"
UsedRatioInvalid(r) == (~(r.num > 0)) /\ (r.num <= r.den)

\* volume['provider_location']: the share create_volume got from _find_share
ProviderLocation(p) ==
    IF call[p].result.kind = "share" THEN call[p].result.share ELSE None

\* no test of provider_location at all
ProviderLocationUnchecked(provider_location) == TRUE

\* "if not volume['provider_location']" does not hold
HasProviderLocation(provider_location) == provider_location # None

\* a _find_share call whose list has no share left to look at leaves the loop
Enter(c) == IF c.idx > Len(c.list) THEN LoopExit(c) ELSE c

\* _ensure_shares_mounted of the base class: reload the registry from the
\* shares file, mount every share of it, keep those whose mount worked
EnsureSharesMounted(ok) ==
    /\ shares' = [s \in {SharesFile[i] : i \in 1..Len(SharesFile)}
                    |-> SharesOptions[s]]
    /\ mounted_shares' = Filter(SharesFile, ok)
    /\ lastOp' = [op |-> "do_setup",
                  commands |-> [i \in 1..Len(SharesFile) |->
                      [cmd |-> "mount", share |-> SharesFile[i], name |-> 0,
                       flags |-> SharesOptions[SharesFile[i]]]],
                  error |-> None]

\* ---------------------------------------------------------------- Init

Configurations ==
    [smbfs_shares_config : ConfigPaths, smbfs_used_ratio : UsedRatios,
     smbfs_oversub_ratio : OversubRatios]

\* the driver after construction, on any configuration and filesystem state
InitOn(configs, fsStates) ==
    /\ configuration \in configs
    /\ shares = [s \in {} |-> None]
    /\ mounted_shares = <<>>
    /\ fs \in [Shares -> fsStates]
    /\ files = [f \in Shares \X Procs |-> NoFile]
    /\ pc = [p \in Procs |-> "idle"]
    /\ call = [p \in Procs |-> IdleCall]
    /\ dlog = [p \in Procs |-> NoLog]
    /\ lastOp = NoOp

\* ---------------------------------------------------------------- actions

\* do_setup; exists: os.path.exists(config); ok: the shares whose mount works
DoSetup(exists, ok) ==
    LET config == configuration.smbfs_shares_config
        fail(msg) ==
            /\ lastOp' = [op |-> "do_setup", commands |-> <<>>, error |-> msg]
            /\ UNCHANGED <<shares, mounted_shares>>
    IN
    /\ IF config = "" THEN fail("no config file configured")
       ELSE IF ~exists THEN fail("config file doesn't exist")
       ELSE IF OversubRatioInvalid(configuration.smbfs_oversub_ratio)
            THEN fail("smbfs_oversub_ratio invalid")
       ELSE IF UsedRatioInvalid(configuration.smbfs_used_ratio)
            THEN fail("smbfs_used_ratio invalid")
       ELSE EnsureSharesMounted(ok)
    /\ UNCHANGED <<configuration, fs, files, pc, call, dlog>>

\* delete_volume of request p's volume; mountOk: whether the mount works
DeleteVolume(p, mountOk) ==
    LET loc == ProviderLocation(p)
        done(cmds, err) ==
            dlog' = [dlog EXCEPT ![p] = [commands |-> cmds, error |-> err]]
    IN
    /\ pc[p] \in {"idle", "failed", "created", "deleted"}
    /\ IF ~HasProviderLocation(loc)
       THEN /\ done(<<>>, None)
            /\ UNCHANGED files
       ELSE IF ~mountOk
       THEN /\ done(<<Mount(loc)>>, "mount failed")
            /\ UNCHANGED files
       ELSE /\ done(<<Mount(loc), Rm(loc, p)>>, None)
            /\ files' = [f \in DOMAIN files |->
                           IF f = <<loc, p>> THEN NoFile ELSE files[f]]
    /\ pc' = [pc EXCEPT ![p] = "deleted"]
    /\ UNCHANGED <<configuration, shares, mounted_shares, fs, call, lastOp>>

\* _find_share up to the loop: lines 208-212
FindShareStart(p, size) ==
    /\ pc[p] = "idle"
    /\ LET c == IF NoMountedShares(mounted_shares)
                THEN [NewCall(size, mounted_shares)
                        EXCEPT !.result = SmbfsNoSharesMounted]
                ELSE Enter(NewCall(size, mounted_shares))
       IN /\ call' = [call EXCEPT ![p] = c]
          /\ pc' = [pc EXCEPT ![p] = PcAfter(c, "elig")]
    /\ UNCHANGED <<configuration, shares, mounted_shares, fs, files, dlog,
                   lastOp>>

\* one iteration up to the answer of _is_share_eligible: lines 214-216
CheckEligible(p) ==
    /\ pc[p] = "elig"
    /\ LET c == call[p]
           cap == GetCapacityInfo(c.list[c.idx])
           r == IsShareEligible(cap, c.size)
           c1 == [c EXCEPT !.inspections = c.inspections + 1,
                           !.eligRead[c.idx] = cap.total_allocated,
                           !.eligible[c.idx] = r]
           c2 == IF r = "ZeroDivisionError"
                 THEN [c1 EXCEPT !.result = ZeroDivisionError]
                 ELSE IF r = "False" THEN NextShare(c1)
                 ELSE c1
       IN /\ call' = [call EXCEPT ![p] = c2]
          /\ pc' = [pc EXCEPT ![p] =
                        IF r = "True" THEN "rank" ELSE PcAfter(c2, "elig")]
    /\ UNCHANGED <<configuration, shares, mounted_shares, fs, files, dlog,
                   lastOp>>

\* the rest of the iteration for an eligible share: lines 217-225
RankShare(p) ==
    /\ pc[p] = "rank"
    /\ LET c == call[p]
           cap == GetCapacityInfo(c.list[c.idx])
           c1 == [c EXCEPT !.inspections = c.inspections + 1,
                           !.ranked[c.idx] = TRUE,
                           !.rankRead[c.idx] = cap.total_allocated]
           c2 == NextShare(Rank(c1, c.list[c.idx], cap.total_allocated))
       IN /\ call' = [call EXCEPT ![p] = c2]
          /\ pc' = [pc EXCEPT ![p] = PcAfter(c2, "elig")]
    /\ UNCHANGED <<configuration, shares, mounted_shares, fs, files, dlog,
                   lastOp>>

\* _do_create_volume on the share _find_share returned (create_volume of the
\* base class stores it as provider_location), for a volume named after the
\* request.  The options are at their defaults (no volume_type, raw, sparse):
\* the file takes size GiB of apparent space and no blocks.  A negative
\* size is refused by the tool that creates the file.
DoCreateVolume(p) ==
    /\ pc[p] = "found"
    /\ LET volume_path == <<call[p].result.share, p>>
       IN IF files[volume_path] # NoFile \/ call[p].size < 0
          THEN /\ pc' = [pc EXCEPT ![p] = "failed"]
               /\ UNCHANGED files
          ELSE /\ pc' = [pc EXCEPT ![p] = "created"]
               /\ files' = [files EXCEPT ![volume_path] = <<call[p].size>>]
    /\ UNCHANGED <<configuration, shares, mounted_shares, fs, call, dlog,
                   lastOp>>

\* ------------------------------------------------- interleaved requests

\* two create requests run interleaved at every external command, on shares
\* of one size
ConcurrentFsStates == {c \in FsStates : /\ c.total_size = 2 * GiB
                                         /\ c.total_available = GiB
                                         /\ c.other <= GiB}
ConcurrentSizes == 1..MaxVolumeSize
ConcurrentMounts == {{}, {"B", "C"}, Shares}
ConcurrentConfigurations ==
    {c \in Configurations : /\ c.smbfs_shares_config # ""
                            /\ c.smbfs_used_ratio.num = 1
                            /\ c.smbfs_oversub_ratio.num > 0}

Init == InitOn(ConcurrentConfigurations, ConcurrentFsStates)

Next ==
    \/ \E exists \in BOOLEAN, ok \in ConcurrentMounts : DoSetup(exists, ok)
    \/ \E p \in Procs, mountOk \in BOOLEAN : DeleteVolume(p, mountOk)
    \/ \E p \in Procs, size \in ConcurrentSizes : FindShareStart(p, size)
    \/ \E p \in Procs : CheckEligible(p)
    \/ \E p \in Procs : RankShare(p)
    \/ \E p \in Procs : DoCreateVolume(p)

Spec == Init /\ [][Next]_vars

\* ------------------------------------------------------ a single request

\* one request on any filesystem state and any volume size
InitOne == InitOn(Configurations, FsStates)

NextOne ==
    \/ \E exists \in BOOLEAN, ok \in SUBSET Shares :
          pc[1] = "idle" /\ DoSetup(exists, ok)
    \/ \E size \in VolumeSizes : FindShareStart(1, size)
    \/ CheckEligible(1)
    \/ RankShare(1)

SpecOne == InitOne /\ [][NextOne]_vars

\* ------------------------------------------------------------ properties

Used == configuration.smbfs_used_ratio
Oversub == configuration.smbfs_oversub_ratio

Indexes(p) == 1..Len(call[p].list)
Evaluated(p) == {i \in Indexes(p) : call[p].eligible[i] # "?"}
Finished(p) == call[p].result.kind \notin {"none", "running"}

\* the reading on which _is_share_eligible decided about the i-th share
TotalSize(p, i) == fs[call[p].list[i]].total_size
TotalAvailable(p, i) == fs[call[p].list[i]].total_available
TotalAllocated(p, i) == call[p].eligRead[i]
RequestedBytes(p) == call[p].size * GiB

\* (total_size - total_available) / total_size <= used_ratio
WithinUsedRatio(p, i) ==
    (TotalSize(p, i) - TotalAvailable(p, i)) * Used.den
        <= Used.num * TotalSize(p, i)

\* total_size * oversub_ratio - total_allocated > requested_bytes
HasHeadroom(p, i) ==
    TotalSize(p, i) * Oversub.num - TotalAllocated(p, i) * Oversub.den
        > RequestedBytes(p) * Oversub.den

\* total_allocated / total_size < oversub_ratio
ReservedBelowOversub(p, i) ==
    TotalAllocated(p, i) * Oversub.den < Oversub.num * TotalSize(p, i)

\* the shares of the list that are eligible on the present filesystem state
EligibleNow(p) ==
    {i \in Indexes(p) :
        IsShareEligible(GetCapacityInfo(call[p].list[i]), call[p].size) = "True"}

AllocatedNow(p, i) == GetCapacityInfo(call[p].list[i]).total_allocated

\* C1: whenever at least one share of a non-empty mounted list is eligible,
\* _find_share returns an eligible share whose total_allocated is minimal
\* among the eligible ones, the first such share in iteration order.
C1_ReturnsFirstLeastAllocated ==
    \A p \in Procs :
        (Finished(p) /\ EligibleNow(p) # {}) =>
            /\ call[p].result.kind = "share"
            /\ \E k \in EligibleNow(p) :
                /\ call[p].list[k] = call[p].result.share
                /\ \A j \in EligibleNow(p) :
                    /\ AllocatedNow(p, k) <= AllocatedNow(p, j)
                    /\ j < k => AllocatedNow(p, j) > AllocatedNow(p, k)

C3_EmptyListNoSharesMounted ==
    \A p \in Procs :
        (call[p].result.kind # "none" /\ call[p].list = <<>>) =>
            /\ call[p].result = SmbfsNoSharesMounted
            /\ call[p].inspections = 0

C3_Witness ==
    \E p \in Procs :
        /\ call[p].result = SmbfsNoSharesMounted
        /\ call[p].list = <<>>
        /\ call[p].size > 0
        /\ call[p].inspections = 0

\* C4: _find_share on a non-empty list all of whose shares are answered
\* not eligible fails with SmbfsNoSuitableShareFound carrying the size in
\* GiB as passed, and returns no share.
C4_NoneEligibleNoSuitableShare ==
    \A p \in Procs :
        (/\ Finished(p)
         /\ call[p].list # <<>>
         /\ \A i \in Indexes(p) : call[p].eligible[i] = "False") =>
            call[p].result = [kind |-> "SmbfsNoSuitableShareFound",
                              volume_size |-> call[p].size]

C4_Witness ==
    \E p \in Procs :
        /\ Len(call[p].list) > 1
        /\ \A i \in Indexes(p) : call[p].eligible[i] = "False"
        /\ call[p].size = MaxVolumeSize
        /\ call[p].result.kind = "SmbfsNoSuitableShareFound"

RatioValid(r) == r.num > 0
UsedRatioValid(r) == r.num > 0 /\ r.num <= r.den

\* C5: do_setup completes and mounts shares only when 0 < used_ratio <= 1
\* and oversub_ratio > 0; otherwise it fails and mounts nothing.
C5_SetupValidatesRatios ==
    lastOp.op = "do_setup" =>
        /\ lastOp.error = None => UsedRatioValid(Used) /\ RatioValid(Oversub)
        /\ ~(UsedRatioValid(Used) /\ RatioValid(Oversub)) =>
              lastOp.error # None /\ lastOp.commands = <<>>

\* a step that is a delete_volume of request p's volume
DeleteStep(p) ==
    /\ pc'[p] = "deleted"
    /\ pc[p] # "deleted" \/ dlog'[p] # dlog[p]

\* C6: delete_volume without provider_location mounts nothing, removes
\* nothing, raises nothing and changes no driver state; with a
\* provider_location it mounts that share first and removes the volume
\* file only after the mount.
C6_DeleteWithoutLocationIsNoOp ==
    [][\A p \in Procs :
        DeleteStep(p) =>
            IF ProviderLocation(p) = None
            THEN /\ dlog'[p] = NoLog
                 /\ UNCHANGED <<configuration, shares, mounted_shares, fs,
                                files, call, lastOp>>
            ELSE /\ dlog'[p].commands # <<>>
                 /\ dlog'[p].commands[1].cmd = "mount"
                 /\ dlog'[p].commands[1].share = ProviderLocation(p)
                 /\ files' # files =>
                      /\ Len(dlog'[p].commands) = 2
                      /\ dlog'[p].commands[2].cmd = "rm"
                 /\ dlog'[p].error = None =>
                      files'[<<ProviderLocation(p), p>>] = NoFile]_vars

\* a volume without provider_location was deleted while a volume file exists
C6_Witness ==
    \E p \in Procs :
        /\ pc[p] = "deleted"
        /\ call[p].result.kind = "SmbfsNoSuitableShareFound"
        /\ ProviderLocation(p) = None
        /\ dlog[p] = NoLog
        /\ \E f \in DOMAIN files : files[f] # NoFile

\* the index of the share a call returned
ReturnedIndex(p) ==
    CHOOSE k \in Indexes(p) : call[p].list[k] = call[p].result.share

\* C7: every _find_share call returns a share that, on the reading the call
\* took, stays strictly within total_size * oversub_ratio with the requested
\* volume added; two interleaved calls can nevertheless return the same
\* share on the same reading and together bring it to or above that limit.
C7_EachCallWithinLimit ==
    \A p \in Procs :
        call[p].result.kind = "share" =>
            LET k == ReturnedIndex(p)
            IN (TotalAllocated(p, k) + RequestedBytes(p)) * Oversub.den
                   < TotalSize(p, k) * Oversub.num

C7_OverCommitted ==
    /\ pc[1] = "created" /\ pc[2] = "created"
    /\ call[1].result = call[2].result
    /\ TotalAllocated(1, ReturnedIndex(1)) = TotalAllocated(2, ReturnedIndex(2))
    /\ files[<<call[1].result.share, 1>>] # NoFile
    /\ files[<<call[1].result.share, 2>>] # NoFile
    /\ AllocatedNow(1, ReturnedIndex(1)) * Oversub.den
           >= TotalSize(1, ReturnedIndex(1)) * Oversub.num

\* C8: within one _find_share call the total_allocated that ranks a share
\* is the reading on which its eligibility was decided.
C8_RankedOnEligibilityReading ==
    \A p \in Procs : \A i \in Indexes(p) :
        call[p].ranked[i] => call[p].rankRead[i] = call[p].eligRead[i]

\* C9: _is_share_eligible on a share with total_size = 0 ends in a division
\* fault, and a _find_share call over a list holding such a share ends in
\* that fault, whatever the other shares are.
C9_ZeroSizeFaults ==
    \A p \in Procs :
        /\ \A i \in Evaluated(p) :
              TotalSize(p, i) = 0 => call[p].eligible[i] = "ZeroDivisionError"
        /\ (Finished(p) /\ \E i \in Indexes(p) : TotalSize(p, i) = 0) =>
              call[p].result = ZeroDivisionError

\* the fault although another share of the list is eligible
C9_Witness ==
    \E p \in Procs :
        /\ call[p].result = ZeroDivisionError
        /\ EligibleNow(p) # {}

====
